---- MODULE Spec2Model ----
(***************************************************************************)
(* Model of beacon_chain/validation/src/attestation_validation.rs:         *)
(* AttestationValidationContext::validate_attestation, bytes_for_bits and  *)
(* the three From<...> translations into AttestationValidationError.       *)
(*                                                                         *)
(* One call of validate_attestation is followed statement by statement:    *)
(* pc is the position in the function body, every early return moves to    *)
(* "done".  The collaborators that are not part of this file (block store, *)
(* parent-hash resolver, signature verifier) answer nondeterministically   *)
(* with any value of their return type.                                    *)
(***************************************************************************)
EXTENDS Integers, Sequences, FiniteSets, TLC

(* ------------------------------------------------------------------ *)
(* Integer widths                                                      *)
(* ------------------------------------------------------------------ *)

\* Width of the model's "u64" (slots).  The arithmetic below saturates at
\* this width exactly as the u64 arithmetic of the source saturates at 64.
U64Bits == 16

U64Max == 2^U64Bits - 1

\* cycle_length is a u8.
U8Max == 255

\* u64::saturating_add
saturating_add(x, y) == IF x + y > U64Max THEN U64Max ELSE x + y

\* u64::saturating_sub / usize::saturating_sub
saturating_sub(x, y) == IF x < y THEN 0 ELSE x - y

(* ------------------------------------------------------------------ *)
(* Option / Result encodings                                           *)
(* ------------------------------------------------------------------ *)

None == [tag |-> "None"]
Some(v) == [tag |-> "Some", val |-> v]
Ok(v) == [tag |-> "Ok", val |-> v]
Err(e) == [tag |-> "Err", err |-> e]

\* A local or a collaborator answer that does not exist yet.
NotCalled == [tag |-> "NotCalled"]

(* ------------------------------------------------------------------ *)
(* Error enums                                                         *)
(* ------------------------------------------------------------------ *)

\* A variant without payload; DBError carries its message.
E(v) == [variant |-> v, message |-> ""]
DBErr(s) == [variant |-> "DBError", message |-> s]

AttestationValidationErrorVariants ==
    { "SlotTooHigh", "SlotTooLow", "JustifiedSlotIncorrect", "UnknownJustifiedBlock",
      "TooManyObliqueHashes", "BadCurrentHashes", "BadObliqueHashes", "BadAttesterMap",
      "IntWrapping", "PublicKeyCorrupt", "NoPublicKeyForValidator", "BadBitfieldLength",
      "InvalidBitfield", "InvalidBitfieldEndBits", "NoSignatures", "NonZeroTrailingBits",
      "BadAggregateSignature", "DBError" }

DBMessages == { "read failed", "corrupt column" }

ParentHashesErrorVariants ==
    { "BadCurrentHashes", "BadObliqueHashes", "SlotTooLow", "SlotTooHigh", "IntWrapping" }

SignatureVerificationErrors ==
    { E("BadValidatorIndex"), E("PublicKeyCorrupt"), E("NoPublicKeyForValidator") }
        \cup { DBErr(s) : s \in DBMessages }

\* impl From<ParentHashesError> for AttestationValidationError
FromParentHashesError_SwappedSlots(e) ==
    CASE e.variant = "BadCurrentHashes" -> E("BadCurrentHashes")
      [] e.variant = "BadObliqueHashes" -> E("BadObliqueHashes")
      [] e.variant = "SlotTooLow"       -> E("SlotTooHigh")
      [] e.variant = "SlotTooHigh"      -> E("SlotTooLow")
      [] e.variant = "IntWrapping"      -> E("IntWrapping")

FromParentHashesError(e) ==
    CASE e.variant = "BadCurrentHashes" -> E("BadCurrentHashes")
      [] e.variant = "BadObliqueHashes" -> E("BadObliqueHashes")
      [] e.variant = "SlotTooLow"       -> E("SlotTooLow")
      [] e.variant = "SlotTooHigh"      -> E("SlotTooHigh")
      [] e.variant = "IntWrapping"      -> E("IntWrapping")

\* impl From<DBError> for AttestationValidationError
FromDBError(e) == DBErr(e.message)

\* impl From<SignatureVerificationError> for AttestationValidationError
FromSignatureVerificationError_InvalidBitfield(e) ==
    CASE e.variant = "BadValidatorIndex"       -> E("InvalidBitfield")
      [] e.variant = "PublicKeyCorrupt"        -> E("PublicKeyCorrupt")
      [] e.variant = "NoPublicKeyForValidator" -> E("NoPublicKeyForValidator")
      [] e.variant = "DBError"                 -> DBErr(e.message)

FromSignatureVerificationError(e) ==
    CASE e.variant = "BadValidatorIndex"       -> E("BadAttesterMap")
      [] e.variant = "PublicKeyCorrupt"        -> E("PublicKeyCorrupt")
      [] e.variant = "NoPublicKeyForValidator" -> E("NoPublicKeyForValidator")
      [] e.variant = "DBError"                 -> DBErr(e.message)

(* ------------------------------------------------------------------ *)
(* bytes_for_bits                                                      *)
(* ------------------------------------------------------------------ *)

bytes_for_bits_NoSub(bits) == (bits \div 8) + 1

bytes_for_bits(bits) == (saturating_sub(bits, 1) \div 8) + 1

(* ------------------------------------------------------------------ *)
(* Inputs                                                              *)
(* ------------------------------------------------------------------ *)

\* block_slot: u64
BlockSlots == { 0, 3, 300, U64Max }

\* AttestationRecord.slot: u64
Slots == { 0, 1, 43, 44, 300, U64Max }

\* cycle_length: u8
CycleLengths == { 0, 1, U8Max }

JustifiedSlots == { 0, 1 }

ShardIds == { 0, 1 }

\* Lengths of oblique_parent_hashes.
ObliqueLengths == { 0, 2, U8Max + 1 }

ObliqueHashes(n) == [i \in 1..n |-> "oblique"]

\* Committee sizes the attester map holds.
CommitteeSizes == { 0, 3, 8, 9 }

\* The ordered validator indices of a committee of n members.
Committee(n) == IF n = 3 THEN <<3, 7, 9>> ELSE [i \in 1..n |-> 10 + i]

\* AttesterMap: (slot, shard_id) -> Vec<usize>.  Each map of the model holds
\* a committee for shard 0 of every slot and none for shard 1.
AttesterMaps ==
    { [k \in Slots \X {0} |-> Committee(n)] : n \in CommitteeSizes }

\* Bitfield: num_bytes() is the byte length, len() the logical bit length,
\* bits the positions that are set.
Bitfield(nb, ln, bs) == [num_bytes |-> nb, len |-> ln, bits |-> bs]

Bitfields ==
    { Bitfield(0, 0, {}),
      Bitfield(1, 0, {}),
      Bitfield(1, 3, {0, 2}),
      Bitfield(1, 4, {3}),
      Bitfield(1, 8, {0, 7}),
      Bitfield(2, 9, {0, 8}),
      Bitfield(2, 10, {9}) }

\* struct AttestationValidationContext (the stores answer at the call)
Contexts ==
    [ block_slot : BlockSlots,
      cycle_length : CycleLengths,
      last_justified_slot : JustifiedSlots,
      parent_hashes : { <<"parent1", "parent2">> },
      attester_map : AttesterMaps ]

\* struct AttestationRecord
AttestationRecords ==
    [ slot : Slots,
      shard_id : ShardIds,
      justified_slot : JustifiedSlots,
      justified_block_hash : { "justified" },
      oblique_parent_hashes : { ObliqueHashes(n) : n \in ObliqueLengths },
      attester_bitfield : Bitfields,
      aggregate_sig : { "sig" },
      shard_block_hash : { "shard_block" } ]

(* ------------------------------------------------------------------ *)
(* Collaborators                                                       *)
(* ------------------------------------------------------------------ *)

\* AttesterMap::get(&(slot, shard_id))
attester_map_get(m, slot, shard_id) ==
    IF <<slot, shard_id>> \in DOMAIN m THEN Some(m[<<slot, shard_id>>]) ELSE None

\* BlockStore::block_exists -> Result<bool, DBError>
BlockExistsResults ==
    { Ok(TRUE), Ok(FALSE) } \cup { Err(DBErr(s)) : s \in DBMessages }

\* attestation_parent_hashes -> Result<Vec<Hash256>, ParentHashesError>
ParentHashesResults(c, a) ==
    { Ok(c.parent_hashes \o a.oblique_parent_hashes) }
        \cup { Err(E(v)) : v \in ParentHashesErrorVariants }

\* generate_signed_message
generate_signed_message(slot, parent_hashes, shard_id, shard_block_hash, justified_slot) ==
    <<slot, parent_hashes, shard_id, shard_block_hash, justified_slot>>

\* The committee members whose bit is set.
Voters(indices, bitfield) ==
    { indices[i + 1] : i \in { b \in bitfield.bits : b < Len(indices) } }

\* verify_aggregate_signature_for_indices
\*   -> Result<Option<HashSet<usize>>, SignatureVerificationError>
VerifyResults(indices, bitfield) ==
    { Ok(None), Ok(Some({})), Ok(Some(Voters(indices, bitfield))) }
        \cup { Err(e) : e \in SignatureVerificationErrors }

(* ------------------------------------------------------------------ *)
(* State                                                               *)
(* ------------------------------------------------------------------ *)

VARIABLES
    ctx,                  \* &self
    a,                    \* a: &AttestationRecord
    pc,                   \* position in validate_attestation
    attestation_indices,  \* local: the committee, once looked up
    block_exists_ret,     \* what block_store.block_exists returned
    parent_hashes_ret,    \* what attestation_parent_hashes returned
    signed_message,       \* local: the message handed to the verifier
    verify_ret,           \* what verify_aggregate_signature_for_indices returned
    accesses,             \* the collaborators consulted so far, in order
    result                \* the value validate_attestation returned

vars == <<ctx, a, pc, attestation_indices, block_exists_ret, parent_hashes_ret,
          signed_message, verify_ret, accesses, result>>

Init ==
    /\ ctx \in Contexts
    /\ a \in AttestationRecords
    /\ pc = "slot_high"
    /\ attestation_indices = NotCalled
    /\ block_exists_ret = NotCalled
    /\ parent_hashes_ret = NotCalled
    /\ signed_message = NotCalled
    /\ verify_ret = NotCalled
    /\ accesses = <<>>
    /\ result = NotCalled

\* return r
Return(r) ==
    /\ pc' = "done"
    /\ result' = r

\* fall through to the next statement
Goto(next) ==
    /\ pc' = next
    /\ result' = result

(* ------------------------------------------------------------------ *)
(* validate_attestation, statement by statement                        *)
(* ------------------------------------------------------------------ *)

\* if a.slot > self.block_slot { return Err(SlotTooHigh) }
CheckSlotTooHigh ==
    /\ pc = "slot_high"
    /\ IF a.slot > ctx.block_slot
         THEN Return(Err(E("SlotTooHigh")))
         ELSE Goto("slot_low")
    /\ UNCHANGED <<ctx, a, attestation_indices, block_exists_ret, parent_hashes_ret,
                   signed_message, verify_ret, accesses>>

\* self.block_slot.saturating_sub(u64::from(self.cycle_length).saturating_add(1))
SlotLowerBound_NoPlusOne(c) == saturating_sub(c.block_slot, c.cycle_length)

SlotLowerBound(c) == saturating_sub(c.block_slot, saturating_add(c.cycle_length, 1))

\* if a.slot < <lower bound> { return Err(SlotTooLow) }
CheckSlotTooLow ==
    /\ pc = "slot_low"
    /\ IF a.slot < SlotLowerBound(ctx)
         THEN Return(Err(E("SlotTooLow")))
         ELSE Goto("justified")
    /\ UNCHANGED <<ctx, a, attestation_indices, block_exists_ret, parent_hashes_ret,
                   signed_message, verify_ret, accesses>>

CheckJustifiedSlot_AfterOblique ==
    /\ pc = "justified"
    /\ IF Len(a.oblique_parent_hashes) > ctx.cycle_length
         THEN Return(Err(E("TooManyObliqueHashes")))
         ELSE IF a.justified_slot # ctx.last_justified_slot
                THEN Return(Err(E("JustifiedSlotIncorrect")))
                ELSE Goto("oblique")
    /\ UNCHANGED <<ctx, a, attestation_indices, block_exists_ret, parent_hashes_ret,
                   signed_message, verify_ret, accesses>>

CheckJustifiedSlot_OnlyGreater ==
    /\ pc = "justified"
    /\ IF a.justified_slot > ctx.last_justified_slot
         THEN Return(Err(E("JustifiedSlotIncorrect")))
         ELSE Goto("oblique")
    /\ UNCHANGED <<ctx, a, attestation_indices, block_exists_ret, parent_hashes_ret,
                   signed_message, verify_ret, accesses>>

\* if a.justified_slot != self.last_justified_slot { return Err(JustifiedSlotIncorrect) }
CheckJustifiedSlot ==
    /\ pc = "justified"
    /\ IF a.justified_slot # ctx.last_justified_slot
         THEN Return(Err(E("JustifiedSlotIncorrect")))
         ELSE Goto("oblique")
    /\ UNCHANGED <<ctx, a, attestation_indices, block_exists_ret, parent_hashes_ret,
                   signed_message, verify_ret, accesses>>

CheckObliqueHashes_AfterLookup ==
    /\ pc = "oblique"
    /\ accesses' = Append(accesses, "attester_map")
    /\ IF Len(a.oblique_parent_hashes) > ctx.cycle_length
         THEN Return(Err(E("TooManyObliqueHashes")))
         ELSE Goto("committee")
    /\ UNCHANGED <<ctx, a, attestation_indices, block_exists_ret, parent_hashes_ret,
                   signed_message, verify_ret>>

\* if a.oblique_parent_hashes.len() > usize::from(self.cycle_length)
\*     { return Err(TooManyObliqueHashes) }
CheckObliqueHashes ==
    /\ pc = "oblique"
    /\ IF Len(a.oblique_parent_hashes) > ctx.cycle_length
         THEN Return(Err(E("TooManyObliqueHashes")))
         ELSE Goto("committee")
    /\ UNCHANGED <<ctx, a, attestation_indices, block_exists_ret, parent_hashes_ret,
                   signed_message, verify_ret, accesses>>

\* let attestation_indices = self.attester_map.get(&(a.slot, a.shard_id))
\*     .ok_or(BadAttesterMap)?;
LookupCommittee ==
    /\ pc = "committee"
    /\ accesses' = Append(accesses, "attester_map")
    /\ attestation_indices' = attester_map_get(ctx.attester_map, a.slot, a.shard_id)
    /\ IF attestation_indices'.tag = "None"
         THEN Return(Err(E("BadAttesterMap")))
         ELSE Goto("bitfield_bytes")
    /\ UNCHANGED <<ctx, a, block_exists_ret, parent_hashes_ret, signed_message,
                   verify_ret>>

\* if a.attester_bitfield.num_bytes() != bytes_for_bits(attestation_indices.len())
\*     { return Err(BadBitfieldLength) }
CheckBitfieldBytes ==
    /\ pc = "bitfield_bytes"
    /\ IF a.attester_bitfield.num_bytes # bytes_for_bits(Len(attestation_indices.val))
         THEN Return(Err(E("BadBitfieldLength")))
         ELSE Goto("bitfield_len")
    /\ UNCHANGED <<ctx, a, attestation_indices, block_exists_ret, parent_hashes_ret,
                   signed_message, verify_ret, accesses>>

CheckBitfieldLen_OffByOne ==
    /\ pc = "bitfield_len"
    /\ IF a.attester_bitfield.len >= Len(attestation_indices.val)
         THEN Return(Err(E("InvalidBitfieldEndBits")))
         ELSE Goto("block_exists")
    /\ UNCHANGED <<ctx, a, attestation_indices, block_exists_ret, parent_hashes_ret,
                   signed_message, verify_ret, accesses>>

\* if a.attester_bitfield.len() > attestation_indices.len()
\*     { return Err(InvalidBitfieldEndBits) }
CheckBitfieldLen ==
    /\ pc = "bitfield_len"
    /\ IF a.attester_bitfield.len > Len(attestation_indices.val)
         THEN Return(Err(E("InvalidBitfieldEndBits")))
         ELSE Goto("block_exists")
    /\ UNCHANGED <<ctx, a, attestation_indices, block_exists_ret, parent_hashes_ret,
                   signed_message, verify_ret, accesses>>

CheckBlockExists_IgnoreAbsent ==
    /\ pc = "block_exists"
    /\ accesses' = Append(accesses, "block_store")
    /\ \E r \in BlockExistsResults :
         /\ block_exists_ret' = r
         /\ IF r.tag = "Err"
              THEN Return(Err(FromDBError(r.err)))
              ELSE Goto("parent_hashes")
    /\ UNCHANGED <<ctx, a, attestation_indices, parent_hashes_ret, signed_message,
                   verify_ret>>

\* if !self.block_store.block_exists(&a.justified_block_hash)?
\*     { return Err(UnknownJustifiedBlock) }
CheckBlockExists ==
    /\ pc = "block_exists"
    /\ accesses' = Append(accesses, "block_store")
    /\ \E r \in BlockExistsResults :
         /\ block_exists_ret' = r
         /\ IF r.tag = "Err"
              THEN Return(Err(FromDBError(r.err)))
              ELSE IF ~ r.val
                     THEN Return(Err(E("UnknownJustifiedBlock")))
                     ELSE Goto("parent_hashes")
    /\ UNCHANGED <<ctx, a, attestation_indices, parent_hashes_ret, signed_message,
                   verify_ret>>

\* let signed_message = { let parent_hashes = attestation_parent_hashes(...)?;
\*                        generate_signed_message(...) };
BuildSignedMessage ==
    /\ pc = "parent_hashes"
    /\ accesses' = Append(accesses, "parent_hash_resolver")
    /\ \E r \in ParentHashesResults(ctx, a) :
         /\ parent_hashes_ret' = r
         /\ IF r.tag = "Err"
              THEN /\ Return(Err(FromParentHashesError(r.err)))
                   /\ signed_message' = signed_message
              ELSE /\ Goto("verify")
                   /\ signed_message' =
                        generate_signed_message(a.slot, r.val, a.shard_id,
                                                a.shard_block_hash, a.justified_slot)
    /\ UNCHANGED <<ctx, a, attestation_indices, block_exists_ret, verify_ret>>

\* let voted_hashmap = verify_aggregate_signature_for_indices(...)?;
VerifySignature ==
    /\ pc = "verify"
    /\ accesses' = Append(accesses, "validator_store")
    /\ \E r \in VerifyResults(attestation_indices.val, a.attester_bitfield) :
         /\ verify_ret' = r
         /\ IF r.tag = "Err"
              THEN Return(Err(FromSignatureVerificationError(r.err)))
              ELSE Goto("match")
    /\ UNCHANGED <<ctx, a, attestation_indices, block_exists_ret, parent_hashes_ret,
                   signed_message>>

MatchVotedHashmap_NoneIsEmpty ==
    /\ pc = "match"
    /\ IF verify_ret.val.tag = "None"
         THEN Return(Ok({}))
         ELSE Return(Ok(verify_ret.val.val))
    /\ UNCHANGED <<ctx, a, attestation_indices, block_exists_ret, parent_hashes_ret,
                   signed_message, verify_ret, accesses>>

\* match voted_hashmap { None => Err(BadAggregateSignature), Some(hashmap) => Ok(hashmap) }
MatchVotedHashmap ==
    /\ pc = "match"
    /\ IF verify_ret.val.tag = "None"
         THEN Return(Err(E("BadAggregateSignature")))
         ELSE Return(Ok(verify_ret.val.val))
    /\ UNCHANGED <<ctx, a, attestation_indices, block_exists_ret, parent_hashes_ret,
                   signed_message, verify_ret, accesses>>

Next ==
    \/ CheckSlotTooHigh
    \/ CheckSlotTooLow
    \/ CheckJustifiedSlot
    \/ CheckObliqueHashes
    \/ LookupCommittee
    \/ CheckBitfieldBytes
    \/ CheckBitfieldLen
    \/ CheckBlockExists
    \/ BuildSignedMessage
    \/ VerifySignature
    \/ MatchVotedHashmap

Spec == Init /\ [][Next]_vars

(* ------------------------------------------------------------------ *)
(* The rules of section 4.1, stated on the inputs                      *)
(* ------------------------------------------------------------------ *)

Done == pc = "done"

IsErr(v) == Done /\ result = Err(E(v))

Range(s) == { s[i] : i \in DOMAIN s }

\* block_slot - (cycle_length + 1), or 0 where that would be negative.
WindowStart ==
    IF ctx.block_slot >= ctx.cycle_length + 1
      THEN ctx.block_slot - (ctx.cycle_length + 1)
      ELSE 0

Ceil8(n) == (n + 7) \div 8

HasCommittee == <<a.slot, a.shard_id>> \in DOMAIN ctx.attester_map

CommitteeLen == Len(ctx.attester_map[<<a.slot, a.shard_id>>])

Violates1 == a.slot > ctx.block_slot
Violates2 == a.slot < WindowStart
Violates3 == a.justified_slot # ctx.last_justified_slot
Violates4 == Len(a.oblique_parent_hashes) > ctx.cycle_length
Violates5 == ~ HasCommittee
Violates6 == HasCommittee /\ a.attester_bitfield.num_bytes # bytes_for_bits(CommitteeLen)
Violates7 == HasCommittee /\ a.attester_bitfield.len > CommitteeLen

Structural == ~ (Violates1 \/ Violates2 \/ Violates3 \/ Violates4 \/ Violates5
                   \/ Violates6 \/ Violates7)

(* ------------------------------------------------------------------ *)
(* C1                                                                  *)
(* ------------------------------------------------------------------ *)

\* The outcome the fixed order of rules 8, 9 and 11 prescribes, given what
\* the collaborators answered.
CollaboratorOutcomeInOrder ==
    /\ block_exists_ret # NotCalled
    /\ IF block_exists_ret.tag = "Err"
         THEN result = Err(DBErr(block_exists_ret.err.message))
       ELSE IF ~ block_exists_ret.val
         THEN result = Err(E("UnknownJustifiedBlock"))
       ELSE IF parent_hashes_ret.tag = "Err"
         THEN result = Err(E(parent_hashes_ret.err.variant))
       ELSE IF verify_ret.tag = "Err"
         THEN result.tag = "Err" /\ result.err.variant # "BadAggregateSignature"
       ELSE IF verify_ret.val.tag = "None"
         THEN result = Err(E("BadAggregateSignature"))
       ELSE result.tag = "Ok"

\* C1: validate_attestation fails with the error of the lowest-numbered
\* violated rule of the fixed order 1..11, whatever the later rules would
\* have returned; it succeeds only when no rule is violated.
C1_FirstViolatedRuleWins ==
    Done =>
      IF Violates1 THEN result = Err(E("SlotTooHigh"))
      ELSE IF Violates2 THEN result = Err(E("SlotTooLow"))
      ELSE IF Violates3 THEN result = Err(E("JustifiedSlotIncorrect"))
      ELSE IF Violates4 THEN result = Err(E("TooManyObliqueHashes"))
      ELSE IF Violates5 THEN result = Err(E("BadAttesterMap"))
      ELSE IF Violates6 THEN result = Err(E("BadBitfieldLength"))
      ELSE IF Violates7 THEN result = Err(E("InvalidBitfieldEndBits"))
      ELSE CollaboratorOutcomeInOrder

\* A finished call whose record violates rules 3, 4, 5 at once and fails
\* with the error of rule 3.
C1_Witness ==
    /\ Done
    /\ ~ Violates1 /\ ~ Violates2
    /\ Violates3 /\ Violates4 /\ Violates5
    /\ result = Err(E("JustifiedSlotIncorrect"))

(* ------------------------------------------------------------------ *)
(* C2                                                                  *)
(* ------------------------------------------------------------------ *)

\* C2: every record with slot < block_slot - (cycle_length + 1), the
\* subtraction saturating at 0, is rejected with SlotTooLow; the bound the
\* code computes is that value for every block_slot and cycle_length
\* (no underflow, no overflow), so where the bound is 0 the lower-bound
\* check rejects nothing.
C2_SlotTooLowBound ==
    /\ SlotLowerBound(ctx) = WindowStart
    /\ SlotLowerBound(ctx) \in 0..U64Max
    /\ saturating_add(ctx.cycle_length, 1) = ctx.cycle_length + 1
    /\ Done =>
         /\ a.slot < WindowStart => result = Err(E("SlotTooLow"))
         /\ (result = Err(E("SlotTooLow")) /\ parent_hashes_ret = NotCalled)
              => a.slot < WindowStart

\* A stale record under cycle_length = 255: block_slot 300, bound 44, slot 43.
C2_Witness ==
    /\ IsErr("SlotTooLow")
    /\ ctx.cycle_length = U8Max
    /\ ctx.block_slot > U8Max + 1
    /\ a.slot = WindowStart - 1
    /\ parent_hashes_ret = NotCalled

(* ------------------------------------------------------------------ *)
(* C3                                                                  *)
(* ------------------------------------------------------------------ *)

\* C3 as claimed: every record with justified_slot != last_justified_slot
\* gets JustifiedSlotIncorrect.
C3_Original ==
    (Done /\ Violates3) => result = Err(E("JustifiedSlotIncorrect"))

\* C3 (amended): every record that passes the two slot-bound checks and has
\* justified_slot != last_justified_slot gets JustifiedSlotIncorrect, and
\* the committee map has not been looked up when that is decided.
C3_JustifiedSlotIncorrect ==
    (Done /\ ~ Violates1 /\ ~ Violates2 /\ Violates3) =>
        /\ result = Err(E("JustifiedSlotIncorrect"))
        /\ "attester_map" \notin Range(accesses)
        /\ attestation_indices = NotCalled

C3_Witness ==
    /\ IsErr("JustifiedSlotIncorrect")
    /\ ~ Violates1 /\ ~ Violates2 /\ Violates3
    /\ a.justified_slot < ctx.last_justified_slot
    /\ accesses = <<>>

(* ------------------------------------------------------------------ *)
(* C4                                                                  *)
(* ------------------------------------------------------------------ *)

\* C4 as claimed: for every committee size n >= 0 the byte-length check
\* accepts exactly the bitfields of ceil(n / 8) bytes.
C4_Original ==
    (Done /\ attestation_indices.tag = "Some") =>
        LET n == Len(attestation_indices.val) IN
          /\ bytes_for_bits(n) = Ceil8(n)
          /\ result = Err(E("BadBitfieldLength"))
               <=> a.attester_bitfield.num_bytes # Ceil8(n)

\* C4 (amended): for every committee size n >= 1 the byte-length check
\* accepts exactly the bitfields of ceil(n / 8) bytes; for the empty
\* committee (n = 0) it accepts exactly the bitfields of 1 byte.
C4_BitfieldByteLength ==
    (Done /\ attestation_indices.tag = "Some") =>
        LET n == Len(attestation_indices.val)
            required == IF n = 0 THEN 1 ELSE Ceil8(n)
        IN /\ bytes_for_bits(n) = required
           /\ result = Err(E("BadBitfieldLength"))
                <=> a.attester_bitfield.num_bytes # required

\* A committee of 9 with a 1-byte bitfield.
C4_Witness ==
    /\ IsErr("BadBitfieldLength")
    /\ attestation_indices.tag = "Some"
    /\ Len(attestation_indices.val) = 9
    /\ a.attester_bitfield.num_bytes = 1

(* ------------------------------------------------------------------ *)
(* C5                                                                  *)
(* ------------------------------------------------------------------ *)

\* C5: a record that passes checks 1-6 is rejected with
\* InvalidBitfieldEndBits exactly when its bitfield's logical length
\* exceeds the committee size.
C5_InvalidBitfieldEndBits ==
    (Done /\ attestation_indices.tag = "Some"
          /\ a.attester_bitfield.num_bytes = bytes_for_bits(Len(attestation_indices.val)))
      => (result = Err(E("InvalidBitfieldEndBits"))
            <=> a.attester_bitfield.len > Len(attestation_indices.val))

\* The byte length matches and the logical length is one too many.
C5_Witness ==
    /\ IsErr("InvalidBitfieldEndBits")
    /\ attestation_indices.tag = "Some"
    /\ a.attester_bitfield.num_bytes = Ceil8(Len(attestation_indices.val))
    /\ a.attester_bitfield.len = Len(attestation_indices.val) + 1
    /\ block_exists_ret = NotCalled

(* ------------------------------------------------------------------ *)
(* C6                                                                  *)
(* ------------------------------------------------------------------ *)

\* C6: when the verifier answers None the result is exactly
\* Err(BadAggregateSignature); when it answers Some(S) the result is Ok(S),
\* the empty S included; BadAggregateSignature has no other cause.
C6_AbsenceIsNotEmpty ==
    Done =>
      /\ verify_ret.tag = "Ok" =>
           IF verify_ret.val.tag = "None"
             THEN result = Err(E("BadAggregateSignature"))
             ELSE result = Ok(verify_ret.val.val)
      /\ result = Err(E("BadAggregateSignature")) => verify_ret = Ok(None)

\* The verifier confirmed zero voters of a bitfield with bits set.
C6_Witness ==
    /\ Done
    /\ verify_ret = Ok(Some({}))
    /\ a.attester_bitfield.bits # {}
    /\ result = Ok({})

(* ------------------------------------------------------------------ *)
(* C7                                                                  *)
(* ------------------------------------------------------------------ *)

\* C7: the committee map is consulted only after checks 1-4 passed, the
\* block store only after checks 1-7 passed, the validator store only after
\* the justified block was found and the parent hashes were resolved; a
\* TooManyObliqueHashes rejection happens without any access.
C7_AccessesFollowChecks ==
    /\ "attester_map" \in Range(accesses)
         => ~ (Violates1 \/ Violates2 \/ Violates3 \/ Violates4)
    /\ "block_store" \in Range(accesses) => Structural
    /\ "validator_store" \in Range(accesses)
         => /\ block_exists_ret = Ok(TRUE)
            /\ parent_hashes_ret.tag = "Ok"
            /\ Structural
    /\ IsErr("TooManyObliqueHashes") => accesses = <<>>

\* cycle_length + 1 oblique hashes, a committee exists, nothing was accessed.
C7_Witness ==
    /\ IsErr("TooManyObliqueHashes")
    /\ Len(a.oblique_parent_hashes) = ctx.cycle_length + 1
    /\ HasCommittee
    /\ accesses = <<>>

(* ------------------------------------------------------------------ *)
(* C8                                                                  *)
(* ------------------------------------------------------------------ *)

\* The variant of the core error each verifier error must become.
ExpectedFromVerifier(e) ==
    IF e.variant = "BadValidatorIndex" THEN E("BadAttesterMap")
    ELSE IF e.variant = "DBError" THEN DBErr(e.message)
    ELSE E(e.variant)

\* C8: when a collaborator fails, the result is exactly the mapped variant:
\* a ParentHashesError becomes the variant of the same name, a store DBError
\* becomes DBError with the same message, a SignatureVerificationError
\* becomes the variant of the same name except BadValidatorIndex, which
\* becomes BadAttesterMap.
C8_ErrorTranslation ==
    Done =>
      /\ block_exists_ret.tag = "Err"
           => result = Err(DBErr(block_exists_ret.err.message))
      /\ parent_hashes_ret.tag = "Err"
           => /\ result = Err(E(parent_hashes_ret.err.variant))
              /\ result.err.variant \in ParentHashesErrorVariants
      /\ verify_ret.tag = "Err"
           => result = Err(ExpectedFromVerifier(verify_ret.err))

\* The resolver failed with SlotTooLow on a record whose slot is in range.
C8_Witness ==
    /\ Done
    /\ parent_hashes_ret = Err(E("SlotTooLow"))
    /\ ~ Violates2
    /\ result = Err(E("SlotTooLow"))

(* ------------------------------------------------------------------ *)
(* C9                                                                  *)
(* ------------------------------------------------------------------ *)

NeverProduced == { "InvalidBitfield", "NonZeroTrailingBits", "NoSignatures" }

\* C9: validate_attestation never returns InvalidBitfield,
\* NonZeroTrailingBits or NoSignatures.
C9_DeclaredButNeverProduced ==
    (Done /\ result.tag = "Err") => result.err.variant \notin NeverProduced

\* A bitfield with no bit set went through every check and on to the
\* verifier, which failed.
C9_Witness ==
    /\ Done
    /\ a.attester_bitfield.bits = {}
    /\ verify_ret.tag = "Err"
    /\ result.tag = "Err"

(* ------------------------------------------------------------------ *)
(* C10                                                                 *)
(* ------------------------------------------------------------------ *)

\* C10: whenever validate_attestation returns Ok(S), the slot is inside the
\* window, the justified slots agree, there are at most cycle_length oblique
\* hashes, the committee exists, the bitfield has bytes_for_bits(committee
\* size) bytes and at most committee-size bits, the store reported the
\* justified block, the parent hashes were resolved, and S is the set the
\* verifier returned for the message built from the resolved hashes.
C10_AcceptanceIsSound ==
    (Done /\ result.tag = "Ok") =>
        /\ WindowStart <= a.slot /\ a.slot <= ctx.block_slot
        /\ a.justified_slot = ctx.last_justified_slot
        /\ Len(a.oblique_parent_hashes) <= ctx.cycle_length
        /\ HasCommittee
        /\ attestation_indices = Some(ctx.attester_map[<<a.slot, a.shard_id>>])
        /\ a.attester_bitfield.num_bytes = bytes_for_bits(CommitteeLen)
        /\ a.attester_bitfield.len <= CommitteeLen
        /\ block_exists_ret = Ok(TRUE)
        /\ parent_hashes_ret.tag = "Ok"
        /\ signed_message = <<a.slot, parent_hashes_ret.val, a.shard_id,
                              a.shard_block_hash, a.justified_slot>>
        /\ verify_ret = Ok(Some(result.val))

\* Committee [3, 7, 9], bits 0 and 2 set, voters {3, 9}.
C10_Witness ==
    /\ Done
    /\ attestation_indices = Some(<<3, 7, 9>>)
    /\ a.attester_bitfield.bits = {0, 2}
    /\ result = Ok({3, 9})

====
